---- MODULE Spec2Model ----
(***************************************************************************)
(* Execution engine of the skill agent: the legacy SkillExecutor           *)
(* (app/services/executor.py) and the LangGraph based GraphExecutor        *)
(* (app/services/graph_executor.py, app/services/graph/*.py).              *)
(*                                                                         *)
(* The graph state is the SkillGraphState of graph/state.py.  A field      *)
(* declared Annotated[..., add] is a channel with the append reducer, any  *)
(* other field is a last-value channel: a node's write replaces it.        *)
(* One graph node is one superstep; execute_skill_group is split at its    *)
(* await points (the gather of the group's task coroutines).               *)
(* progress_events, token_usage and the timestamps are left out: no node   *)
(* reads them to take a decision.                                          *)
(***************************************************************************)
EXTENDS Integers, Sequences, FiniteSets, TLC

\* ---- bounds of the model ------------------------------------------------
MaxResumes == 2
\* longest list of results the merge is applied to
MaxResults == 3
\* most failing error rules and failing warning rules of a validated schema
MaxErrors == 7
MaxWarnings == 2
\* most reloads of the schema during one behaviour
MaxReloads == 1

\* ---- program constants --------------------------------------------------
\* SkillGraphState.max_retries (engine level retry budget)
max_retries == 2
\* supersteps LangGraph allows one invocation before GraphRecursionError;
\* GraphExecutor passes no recursion_limit, so the library default applies
RecursionLimit == 25

\* ---- inputs ---------------------------------------------------------------
\* JSON values: a number, an array, or an object (a function from keys to
\* JSON values); the tag is what isinstance() tells apart
Num(n) == <<"num", n>>

Arr(seq) == <<"arr", seq>>

Obj(f) == <<"obj", f>>

Str(t) == <<"str", t>>

Bool(b) == <<"bool", b>>

\* Python None; a JSON null parses to it
None == <<"null">>

\* what one LLM call can produce: a parsed object, or a failure
Data1 == ("x" :> Num(1))
Data2 == ("x" :> Num(2)) @@ ("y" :> Num(1))
EmptyDict == << >>

\* parsed objects with a nested object, a scalar at the same key, and arrays
NestedAB == ("nested" :> Obj(("a" :> Num(1)) @@ ("b" :> Num(2))))
NestedBC == ("nested" :> Obj(("b" :> Num(3)) @@ ("c" :> Num(4))))
NestedScalar == ("nested" :> Num(5))
ListA == ("x" :> Arr(<<1>>))
ListB == ("x" :> Arr(<<2, 3>>))

\* a skill with its SkillConfig; outs and fails are the parsed objects and the
\* failures the LLM client can answer this skill's prompt with
Skill(id, group, st, rc, outs, fails) ==
    [id |-> id, parallel_group |-> group, status |-> st, retry_count |-> rc,
     vendor |-> "none", model |-> "none", outs |-> outs, fails |-> fails]

\* a skill whose config names a vendor or a model ("none" where it does not)
WithLLM(skill, vendor, model) == [skill EXCEPT !.vendor = vendor, !.model = model]

\* a ValidationRule; a dotted path is the sequence of its parts
ValidationRule(name, type, params, sev) ==
    [name |-> name, type |-> type, params |-> params, severity |-> sev]

\* an operand of a sum_check: "-path" has neg = TRUE
Operand(neg, path) == [neg |-> neg, path |-> path]

\* one group, two tasks, an error rule that needs key "x"
SchemaOneGroup ==
    [skills |-> <<Skill("A", 1, "active", 1, {Data1, Data2}, {"timeout", "llm_error"}),
                  Skill("C", 1, "active", 0, {Data2}, {"llm_error"})>>,
     merge_strategy |-> "first_wins",
     validation_rules |-> <<ValidationRule("need_x", "required", [fields |-> <<<<"x">>>>], "error")>>,
     output_model |-> <<>>]

\* two groups, one task each, a warning rule
SchemaTwoGroups ==
    [skills |-> <<Skill("A", 1, "active", 0, {Data1, Data2}, {"timeout"}),
                  Skill("B", 2, "active", 0, {Data1}, {"llm_error"})>>,
     merge_strategy |-> "last_wins",
     validation_rules |-> <<ValidationRule("need_y", "required", [fields |-> <<<<"y">>>>], "warning")>>,
     output_model |-> <<>>]

\* the groups {1,2,1,2} over four tasks A, B, C, D
SchemaInterleaved ==
    [skills |-> <<Skill("A", 1, "active", 0, {Data1}, {"timeout"}),
                  Skill("B", 2, "active", 0, {Data2}, {"timeout"}),
                  Skill("C", 1, "active", 0, {Data2}, {"llm_error"}),
                  Skill("D", 2, "active", 0, {Data1}, {"llm_error"})>>,
     merge_strategy |-> "merge_deep",
     validation_rules |-> <<>>,
     output_model |-> <<>>]

\* one task, a warning rule, a rule of unknown type and an output model
SchemaReview ==
    [skills |-> <<Skill("A", 1, "active", 1, {Data1, Data2}, {"timeout"})>>,
     merge_strategy |-> "merge_deep",
     validation_rules |-> <<ValidationRule("want_y", "required", [fields |-> <<<<"y">>>>], "warning"),
                            ValidationRule("odd", "custom", EmptyDict, "error")>>,
     output_model |-> <<{"x"}>>]

\* a disabled task in the lowest group, an active one after it
SchemaDisabled ==
    [skills |-> <<Skill("Z", 1, "disabled", 0, {Data2}, {"timeout"}),
                  Skill("A", 2, "active", 0, {Data1}, {"llm_error"})>>,
     merge_strategy |-> "first_wins",
     validation_rules |-> <<ValidationRule("need_x", "required", [fields |-> <<<<"x">>>>], "error")>>,
     output_model |-> <<>>]

\* one group: a task with two retries and every kind of failure, and a task
\* whose vendor is unknown to LLMClientFactory.get_client, so that every
\* attempt of it fails; its one rule is a sum_check without 'expected'
SchemaRetry ==
    [skills |-> <<Skill("R", 1, "active", 2, {Data1}, {"timeout", "llm_error", "exception"}),
                  Skill("U", 1, "active", 1, {}, {"unknown_vendor"})>>,
     merge_strategy |-> "last_wins",
     validation_rules |-> <<ValidationRule("bad_sum", "sum_check",
                               [operands |-> <<Operand(FALSE, <<"x">>)>>], "error")>>,
     output_model |-> <<>>]

\* no active task: one disabled, one draft
SchemaNoneActive ==
    [skills |-> <<Skill("Z", 1, "disabled", 0, {Data1}, {"timeout"}),
                  Skill("Y", 1, "draft", 0, {Data2}, {"llm_error"})>>,
     merge_strategy |-> "first_wins",
     validation_rules |-> <<>>,
     output_model |-> <<>>]

\* one task whose output never satisfies the error rule, so that the router
\* retries; the task may answer differently when it is run again
SchemaFirstWins ==
    [skills |-> <<Skill("A", 1, "active", 0, {Data1, Data2}, {"timeout"})>>,
     merge_strategy |-> "first_wins",
     validation_rules |-> <<ValidationRule("need_z", "required", [fields |-> <<<<"z">>>>], "error")>>,
     output_model |-> <<>>]

Schemas == {SchemaOneGroup, SchemaTwoGroups, SchemaInterleaved, SchemaReview,
            SchemaDisabled, SchemaRetry, SchemaNoneActive, SchemaFirstWins}

\* ---- pure helpers -------------------------------------------------------
Range(seq) == {seq[i] : i \in 1..Len(seq)}

Min(S) == CHOOSE x \in S : \A y \in S : x <= y

Max(S) == CHOOSE x \in S : \A y \in S : x >= y

RECURSIVE sorted_desc(_)
sorted_desc(S) ==
    IF S = {} THEN <<>> ELSE <<Max(S)>> \o sorted_desc(S \ {Max(S)})

\* Python sorted() over a set of ints
RECURSIVE sorted(_)
sorted(S) ==
    IF S = {} THEN <<>> ELSE <<Min(S)>> \o sorted(S \ {Min(S)})

\* LoadedSchema.get_skills_by_group: every skill of the schema, keyed by
\* parallel_group (no status filter)
get_skills_by_group(sch) ==
    [g \in {sch.skills[i].parallel_group : i \in 1..Len(sch.skills)} |->
        SelectSeq(sch.skills, LAMBDA s : s.parallel_group = g)]

\* LoadedSchema.get_active_skills
get_active_skills(sch) ==
    SelectSeq(sch.skills, LAMBDA s : s.status = "active")

\* the grouping loop of SkillExecutor._execute_skills over the given skills
group_skills(skills) ==
    [g \in {skills[i].parallel_group : i \in 1..Len(skills)} |->
        SelectSeq(skills, LAMBDA s : s.parallel_group = g)]

SkillIds(sch) == {sch.skills[i].id : i \in 1..Len(sch.skills)}

SkillById(sch, id) == CHOOSE s \in Range(sch.skills) : s.id = id

\* SkillExecutionResult
Result(id, ok, data, err, retries) ==
    [skill_id |-> id, success |-> ok, data |-> data, error |-> err, retries |-> retries]

\* ---- merge --------------------------------------------------------------
\* the isinstance(v, dict) test of _deep_merge
IsDict(v) == v[1] = "obj"

\* a deep merge that also combines two arrays
RECURSIVE deep_merge(_, _)
deep_merge_concat(base, update) ==
    [k \in (DOMAIN base) \cup (DOMAIN update) |->
        IF k \in DOMAIN update
        THEN IF k \in DOMAIN base /\ IsDict(base[k]) /\ IsDict(update[k])
             THEN Obj(deep_merge(base[k][2], update[k][2]))
             ELSE IF k \in DOMAIN base /\ base[k][1] = "arr" /\ update[k][1] = "arr"
             THEN Arr(base[k][2] \o update[k][2])
             ELSE update[k]
        ELSE base[k]]

deep_merge(base, update) ==
    [k \in (DOMAIN base) \cup (DOMAIN update) |->
        IF k \in DOMAIN update
        THEN IF k \in DOMAIN base /\ IsDict(base[k]) /\ IsDict(update[k])
             THEN Obj(deep_merge(base[k][2], update[k][2]))
             ELSE update[k]
        ELSE base[k]]

\* the merge loop's strategy switch with FIRST_WINS overwriting
merge_one_first_overwrites(strategy, merged, data) ==
    CASE strategy \in {"first_wins", "last_wins"} ->
            [k \in (DOMAIN merged) \cup (DOMAIN data) |->
                IF k \in DOMAIN data THEN data[k] ELSE merged[k]]
      [] strategy = "merge_deep" -> deep_merge(merged, data)
      [] OTHER -> merged

\* the merge loop's strategy switch with LAST_WINS keeping what is there
merge_one_last_keeps(strategy, merged, data) ==
    CASE strategy \in {"first_wins", "last_wins"} ->
            [k \in (DOMAIN merged) \cup (DOMAIN data) |->
                IF k \in DOMAIN merged THEN merged[k] ELSE data[k]]
      [] strategy = "merge_deep" -> deep_merge(merged, data)
      [] OTHER -> merged

\* the merge loop's strategy switch with MERGE_DEEP not descending
merge_one_shallow(strategy, merged, data) ==
    CASE strategy = "first_wins" ->
            [k \in (DOMAIN merged) \cup (DOMAIN data) |->
                IF k \in DOMAIN merged THEN merged[k] ELSE data[k]]
      [] strategy \in {"last_wins", "merge_deep"} ->
            [k \in (DOMAIN merged) \cup (DOMAIN data) |->
                IF k \in DOMAIN data THEN data[k] ELSE merged[k]]
      [] OTHER -> merged

\* the merge loop's strategy switch with FIRST_WINS merging as MERGE_DEEP does
merge_one_first_deep(strategy, merged, data) ==
    CASE strategy \in {"first_wins", "merge_deep"} -> deep_merge(merged, data)
      [] strategy = "last_wins" ->
            [k \in (DOMAIN merged) \cup (DOMAIN data) |->
                IF k \in DOMAIN data THEN data[k] ELSE merged[k]]
      [] OTHER -> merged

\* one iteration of the merge loop for one result's data
merge_one(strategy, merged, data) ==
    CASE strategy = "first_wins" ->
            [k \in (DOMAIN merged) \cup (DOMAIN data) |->
                IF k \in DOMAIN merged THEN merged[k] ELSE data[k]]
      [] strategy = "last_wins" ->
            [k \in (DOMAIN merged) \cup (DOMAIN data) |->
                IF k \in DOMAIN data THEN data[k] ELSE merged[k]]
      [] strategy = "merge_deep" -> deep_merge(merged, data)
      [] OTHER -> merged

RECURSIVE merge_loop(_, _, _)
merge_loop(strategy, merged, results) ==
    IF results = <<>> THEN merged
    ELSE LET r == Head(results)
             m == IF r.success /\ r.data # EmptyDict
                  THEN merge_one(strategy, merged, r.data)
                  ELSE merged
         IN merge_loop(strategy, m, Tail(results))

\* ---- validation ---------------------------------------------------------
\* _get_nested_value: the walk over path.split("."), from the value current
RECURSIVE get_nested_value(_, _)
get_nested_value(current, parts) ==
    IF parts = <<>> THEN current
    ELSE IF IsDict(current) /\ Head(parts) \in DOMAIN current[2]
         THEN get_nested_value(current[2][Head(parts)], Tail(parts))
         ELSE None

\* bool(v) of Python, as the `or 0` of the sum_check reads it
truthy(v) ==
    CASE v[1] = "null" -> FALSE
      [] v[1] = "num"  -> v[2] # 0
      [] v[1] = "str"  -> v[2] # ""
      [] v[1] = "bool" -> v[2]
      [] v[1] = "arr"  -> v[2] # <<>>
      [] v[1] = "obj"  -> DOMAIN v[2] # {}

\* rule.params.get("operands", [])
operands_of(params) ==
    IF "operands" \in DOMAIN params THEN params.operands ELSE <<>>

\* _get_nested_value(data, op) or 0
operand_value(data, op) ==
    LET v == get_nested_value(Obj(data), op.path)
    IN IF truthy(v) THEN v ELSE Num(0)

\* the sum_check branch raises: no 'expected' path (None.split), an operand
\* that is not a string (no startswith), or an operand value that cannot be
\* added to an int
sum_check_raises(params, data) ==
    \/ "expected" \notin DOMAIN params
    \/ \E i \in 1..Len(operands_of(params)) :
          \/ "path" \notin DOMAIN operands_of(params)[i]
          \/ operand_value(data, operands_of(params)[i])[1] # "num"

\* a sum that adds the last operand whatever its sign
RECURSIVE calculated(_, _)
calculated_all_added(data, ops) ==
    IF ops = <<>> THEN 0
    ELSE calculated(data, SubSeq(ops, 1, Len(ops) - 1))
            + operand_value(data, ops[Len(ops)])[2]

\* the loop over the operands: calculated += / -= value
calculated(data, ops) ==
    IF ops = <<>> THEN 0
    ELSE LET op == ops[Len(ops)]
             v  == operand_value(data, op)[2]
         IN calculated(data, SubSeq(ops, 1, Len(ops) - 1)) + (IF op.neg THEN -v ELSE v)

\* the list comprehension of the 'required' branch
missing_fields(params, data) ==
    SelectSeq(params.fields, LAMBDA f : get_nested_value(Obj(data), f) = None)

\* the check dictionary a rule produces
Check(name, status, error) == [name |-> name, status |-> status, error |-> error]

\* _run_validation_rule: the check dictionary of one rule
run_validation_rule(rule, data) ==
    IF rule.type = "sum_check"
    THEN IF sum_check_raises(rule.params, data)
         THEN Check(rule.name, "error", <<"exception">>)
         ELSE LET expected_value == get_nested_value(Obj(data), rule.params.expected)
                  sum == calculated(data, operands_of(rule.params))
              IN IF expected_value = Num(sum)
                 THEN Check(rule.name, "passed", <<>>)
                 ELSE Check(rule.name, "failed", <<"expected", expected_value,
                                                   "calculated", sum>>)
    ELSE IF rule.type = "required"
    THEN LET missing == missing_fields(rule.params, data)
         IN IF missing # <<>>
            THEN Check(rule.name, "failed", <<"missing", missing>>)
            ELSE Check(rule.name, "passed", <<>>)
    ELSE IF rule.type = "range_check"
    THEN IF "field" \notin DOMAIN rule.params
         THEN Check(rule.name, "error", <<"exception">>)
         ELSE LET value == get_nested_value(Obj(data), rule.params.field)
              IN IF value = None THEN Check(rule.name, "skipped", <<>>)
                 ELSE IF value[1] # "num" THEN Check(rule.name, "error", <<"exception">>)
                 ELSE IF \/ ("min" \in DOMAIN rule.params /\ value[2] < rule.params.min)
                         \/ ("max" \in DOMAIN rule.params /\ value[2] > rule.params.max)
                 THEN Check(rule.name, "failed", <<"outside", value>>)
                 ELSE Check(rule.name, "passed", <<>>)
    ELSE Check(rule.name, "skipped", <<>>)

\* schema.output_model(**merged_data): the model's required keys are present
output_model_ok(sch, data) ==
    \A f \in sch.output_model[1] : f \in DOMAIN data

\* the check of the output model, when the schema has one
shape_checks(sch, data) ==
    IF sch.output_model = <<>> THEN <<>>
    ELSE IF output_model_ok(sch, data)
    THEN <<Check("pydantic_validation", "passed", <<>>)>>
    ELSE <<Check("pydantic_validation", "failed", <<"exception">>)>>

\* the checks of the rules, in rule order
rule_checks(sch, data) ==
    [i \in 1..Len(sch.validation_rules) |->
        run_validation_rule(sch.validation_rules[i], data)]

\* a selection that also takes the rules whose check was skipped
failed_rules_or_skipped(sch, data, sev) ==
    SelectSeq(sch.validation_rules,
              LAMBDA r : run_validation_rule(r, data).status \in {"failed", "skipped"}
                         /\ (IF sev = "error" THEN r.severity = "error"
                                              ELSE r.severity # "error"))

failed_rules(sch, data, sev) ==
    SelectSeq(sch.validation_rules,
              LAMBDA r : run_validation_rule(r, data).status = "failed"
                         /\ (IF sev = "error" THEN r.severity = "error"
                                              ELSE r.severity # "error"))

rule_names(rules) == [i \in 1..Len(rules) |-> rules[i].name]

\* a score that is not clamped
quality_unclamped(e, w) == 100 - (e * 15) - (w * 5)

\* quality_score = 100 - 15 * len(errors) - 5 * len(warnings), clamped
quality(e, w) == Max({0, Min({100, 100 - (e * 15) - (w * 5)})})

\* a status that looks at the warnings first
validation_status_warnings_first(errors, warnings) ==
    IF warnings # <<>> THEN "REVIEW"
    ELSE IF errors # <<>> THEN "FAIL" ELSE "PASS"

\* if errors: FAIL, elif warnings: REVIEW, else PASS
validation_status(errors, warnings) ==
    IF errors # <<>> THEN "FAIL"
    ELSE IF warnings # <<>> THEN "REVIEW" ELSE "PASS"

\* the ValidationResult built by validate_results / _validate_output
compute_validation(sch, data) ==
    LET shape_err == IF sch.output_model # <<>> /\ ~output_model_ok(sch, data)
                     THEN <<"pydantic_validation">> ELSE <<>>
        errors    == shape_err \o rule_names(failed_rules(sch, data, "error"))
        warnings  == rule_names(failed_rules(sch, data, "warning"))
    IN [status |-> validation_status(errors, warnings),
        quality_score |-> quality(Len(errors), Len(warnings)),
        checks |-> shape_checks(sch, data) \o rule_checks(sch, data),
        errors |-> errors,
        warnings |-> warnings]

\* ---- state --------------------------------------------------------------
VARIABLES
    schema,        \* the LoadedSchema the registry holds for the request's skill_name
    enable_human_review,  \* settings.enable_human_review
    max_parallel_skills,  \* settings.max_parallel_skills
    default_vendor,       \* settings.default_vendor
    request_vendor,       \* request.vendor, "none" when the request gives none
    request_model,        \* request.model, "none" when the request gives none
    loaded,        \* the registry holds a schema under the request's skill_name
    snapshot,      \* the LoadedSchema the registry returned when the execution
                   \* started: the local `schema` of SkillExecutor.execute; no
                   \* graph node reads it
    reloads,       \* number of reloads of the schema by the registry so far
    last_load,     \* how the last _load_schema of a reload ended: "none" before the
                   \* first, "loaded", or "failed" when it raised
    other,         \* graph: <<>>, or <<the second invocation in progress on the
                   \* execution's thread>>, the one that is not scheduled
    engine,        \* "graph": GraphExecutor serves the request, "legacy": SkillExecutor
    state,         \* graph: the checkpointed SkillGraphState of the execution
    next,          \* graph: the node the checkpoint names as next to run
    call,          \* graph: the invocation in progress: "none", "execute", "resume";
                   \* "aborted" once an invocation ended by an exception
    steps,         \* graph: supersteps taken by the invocation in progress
    resuming,      \* graph: the invocation resumes from the interrupt before human_review
    gather,        \* "idle", or "running" while a group's asyncio.gather is awaited
    running,       \* ids of the skills whose _execute_single_skill has not returned
    attempt,       \* per skill: index of the attempt in progress
    returned,      \* per skill: <<>> or <<result>> collected by the gather
    calls,         \* per skill: outcomes of the client calls of the task, in order
    completion,    \* ids of the group's tasks in the order they returned
    slept,         \* per skill: the delays of the task's asyncio.sleep calls, in order
    client,        \* per skill: <<>>, or <<the vendor and model the task passes to
                   \* LLMClientFactory.get_client>>
    response,      \* status of the last ExecutionResponse, "none" before the first
    error,         \* what the error of the last response is about, or "none"
    llm_calls,     \* number of client.extract_json calls made so far
    resumes,       \* number of resume requests served so far
    resume_base,   \* skill_results, merged_data, llm_calls and origin at the last resume
    lpc,           \* legacy: position of SkillExecutor.execute
    lgroups,       \* legacy: group numbers still to run, ascending
    lgroup,        \* legacy: group number being run
    all_results,   \* legacy: all_results of _execute_skills
    lmerged,       \* legacy: merged_data of the response
    lvalidation    \* legacy: <<>> or <<validation>> of the response

vars == <<schema, enable_human_review, max_parallel_skills, default_vendor, request_vendor,
          request_model, client, last_load, loaded, snapshot, reloads,
          other, error, engine, state, next, call, steps, resuming,
          gather, running, attempt, returned, calls, completion, slept, response, llm_calls,
          resumes,
          resume_base, lpc, lgroups, lgroup, all_results, lmerged, lvalidation>>

config_vars == <<schema, enable_human_review, max_parallel_skills, default_vendor,
                 request_vendor, request_model, loaded, engine>>
env_vars    == <<snapshot, reloads, other, last_load, last_load>>
graph_vars  == <<state, next, call, steps, resuming, resumes, resume_base>>
task_vars   == <<gather, running, attempt, returned, calls, completion, slept, client>>
legacy_vars == <<lpc, lgroups, lgroup, all_results, lmerged, lvalidation>>

\* Settings.max_parallel_skills: the default, and a value set through the
\* environment that is smaller than a group
ParallelChoices == {1, 10}

\* SkillGraphState(...) as GraphExecutor.execute creates it
InitialState ==
    [current_group |-> 1,
     completed_groups |-> <<>>,
     pending_skills |-> <<>>,
     skill_results |-> <<>>,
     merged_data |-> EmptyDict,
     validation_result |-> <<>>,
     quality_score |-> 100,
     should_retry |-> FALSE,
     retry_count |-> 0,
     human_review_required |-> FALSE,
     human_feedback |-> "none",
     next_action |-> "none",
     status |-> "running"]

NoBase == [skill_results |-> <<>>, merged_data |-> EmptyDict, llm_calls |-> 0,
           origin |-> "none"]

\* a request that names no vendor and no model, under the default settings
PlainRequest ==
    /\ default_vendor = "anthropic"
    /\ request_vendor = "none"
    /\ request_model = "none"

\* no request has been received yet
Fresh ==
    /\ snapshot = schema
    /\ reloads = 0
    /\ last_load = "none"
    /\ other = <<>>
    /\ error = "none"
    /\ enable_human_review \in BOOLEAN
    /\ max_parallel_skills \in ParallelChoices
    /\ engine \in {"graph", "legacy"}
    /\ state = InitialState
    /\ next = "__start__"
    /\ call = "none"
    /\ steps = 0
    /\ resuming = FALSE
    /\ gather = "idle"
    /\ running = {}
    /\ attempt = [id \in SkillIds(schema) |-> 0]
    /\ returned = [id \in SkillIds(schema) |-> <<>>]
    /\ calls = [id \in SkillIds(schema) |-> <<>>]
    /\ completion = <<>>
    /\ slept = [id \in SkillIds(schema) |-> <<>>]
    /\ client = [id \in SkillIds(schema) |-> <<>>]
    /\ response = "none"
    /\ llm_calls = 0
    /\ resumes = 0
    /\ resume_base = NoBase
    /\ lpc = "start"
    /\ lgroups = <<>>
    /\ lgroup = 0
    /\ all_results = <<>>
    /\ lmerged = EmptyDict
    /\ lvalidation = <<>>

Init ==
    /\ loaded \in BOOLEAN
    /\ schema \in (IF loaded THEN Schemas ELSE {SchemaOneGroup})
    /\ PlainRequest
    /\ Fresh

\* a lookup that answers for any name
get_schema_found_always == TRUE

\* SkillRegistry.get_schema_or_raise: the lookup of the request's skill_name finds
\* a schema; otherwise it raises RegistryError "Schema '...' not found"
get_schema_found == loaded

\* ---- the task runner, shared by both executors ---------------------------
\* _get_default_model_for_vendor: settings.<vendor>_model, the Anthropic model
\* for an unknown vendor
get_default_model_for_vendor(vendor) ==
    CASE vendor = "anthropic" -> "anthropic_model"
      [] vendor = "openai"    -> "openai_model"
      [] vendor = "gemini"    -> "gemini_model"
      [] OTHER                -> "anthropic_model"

\* Python's `a or b` on optional strings
or_else(a, b) == IF a # "none" THEN a ELSE b

\* Skill.get_effective_vendor
get_effective_vendor(skill, default) == or_else(skill.vendor, default)

\* Skill.get_effective_model
get_effective_model(skill, default) == or_else(skill.model, default)

\* the head of _execute_single_skill: the vendor and model of the client
effective_client(skill, vendor, model) ==
    LET effective_vendor == get_effective_vendor(skill, vendor)
        effective_model  == get_effective_model(skill, model)
    IN [vendor |-> effective_vendor,
        model  |-> IF effective_model = "none"
                   THEN get_default_model_for_vendor(effective_vendor)
                   ELSE effective_model]

\* SkillExecutor.execute: the vendor and model handed to every task
legacy_defaults ==
    LET vendor == or_else(request_vendor, default_vendor)
    IN [vendor |-> vendor,
        model  |-> or_else(request_model, get_default_model_for_vendor(vendor))]

\* execute_skill_group: the vendor and model handed to every task; the state
\* holds request.vendor and request.model as GraphExecutor.execute stored them
graph_defaults ==
    [vendor |-> or_else(request_vendor, default_vendor),
     model  |-> request_model]

\* the clients of the tasks of a group under the executor's defaults d
clients(skills, d) ==
    [id \in SkillIds(schema) |->
        IF \E i \in 1..Len(skills) : skills[i].id = id
        THEN <<effective_client(SkillById(schema, id), d.vendor, d.model)>>
        ELSE <<>>]

\* asyncio.gather(*tasks): every coroutine of the group is started
launch(skills) ==
    /\ gather' = "running"
    /\ running' = {skills[i].id : i \in 1..Len(skills)}
    /\ attempt' = [id \in SkillIds(schema) |-> 0]
    /\ returned' = [id \in SkillIds(schema) |-> <<>>]
    /\ calls' = [id \in SkillIds(schema) |-> <<>>]
    /\ completion' = <<>>
    /\ slept' = [id \in SkillIds(schema) |-> <<>>]

\* what the gather holds for a task that raised instead of returning
Raised(e) == [exception |-> e]

\* the loop over zip(skills, results) after the gather: an exception becomes
\* a failed SkillExecutionResult with the default retries
collect(id) ==
    LET r == returned[id][1]
    IN IF "exception" \in DOMAIN r
       THEN Result(id, FALSE, EmptyDict, r.exception, 0)
       ELSE r

\* the results in the order the tasks returned
gathered_as_completed(skills) == [i \in 1..Len(completion) |-> collect(completion[i])]

\* the results of the gather, in the order of the input skills
gathered(skills) == [i \in 1..Len(skills) |-> collect(skills[i].id)]

\* the except clauses of the attempt loop: asyncio.TimeoutError,
\* LLMClientError (get_client raises it for an unknown vendor or a missing
\* key, inside the try), and Exception for everything else
caught_no_catch_all(e) ==
    \/ e = "timeout"
    \/ e \in {"llm_error", "unknown_vendor"}

caught(e) ==
    \/ e = "timeout"
    \/ e \in {"llm_error", "unknown_vendor"}
    \/ TRUE

\* range(retry_count + 1): the number of iterations of the attempt loop
attempts_allowed_more(skill) == skill.retry_count + 2

attempts_allowed(skill) == skill.retry_count + 1

\* retries = attempt + 1 in each except clause
retries_after_failure_same(a) == a

retries_after_failure(a) == a + 1

\* _execute_single_skill, one iteration of its attempt loop whose call succeeds
AttemptSucceeds(id) ==
    /\ gather = "running"
    /\ id \in running
    /\ \E d \in SkillById(schema, id).outs :
          returned' = [returned EXCEPT
                          ![id] = <<Result(id, TRUE, d, "none", attempt[id])>>]
    /\ running' = running \ {id}
    /\ calls' = [calls EXCEPT ![id] = Append(calls[id], "ok")]
    /\ completion' = Append(completion, id)
    /\ llm_calls' = llm_calls + 1
    /\ UNCHANGED <<gather, attempt, slept, client, config_vars, env_vars, graph_vars, legacy_vars,
                   response, error>>

\* a delay that does not grow with the attempts
backoff_constant(a) == 1

\* await asyncio.sleep(1 * (attempt + 1))
backoff(a) == 1 * (a + 1)

\* if attempt < skill.config.retry_count: the runner sleeps before the next
\* iteration of the loop
sleeps_before_retry(skill, a) == a < skill.retry_count

\* _execute_single_skill, one iteration of its attempt loop whose call fails
AttemptFails(id) ==
    /\ gather = "running"
    /\ id \in running
    /\ \E e \in SkillById(schema, id).fails :
          LET retries == retries_after_failure(attempt[id]) IN
          /\ calls' = [calls EXCEPT ![id] = Append(calls[id], e)]
          /\ IF ~caught(e)
             THEN /\ returned' = [returned EXCEPT ![id] = <<Raised(e)>>]
                  /\ running' = running \ {id}
                  /\ completion' = Append(completion, id)
                  /\ UNCHANGED <<attempt, slept>>
             ELSE /\ slept' = IF sleeps_before_retry(SkillById(schema, id), attempt[id])
                              THEN [slept EXCEPT ![id] = Append(slept[id],
                                                                backoff(attempt[id]))]
                              ELSE slept
                  /\ IF attempt[id] + 1 < attempts_allowed(SkillById(schema, id))
                     THEN /\ attempt' = [attempt EXCEPT ![id] = attempt[id] + 1]
                          /\ UNCHANGED <<returned, running, completion>>
                     ELSE /\ returned' = [returned EXCEPT
                                             ![id] = <<Result(id, FALSE, EmptyDict, e, retries)>>]
                          /\ running' = running \ {id}
                          /\ completion' = Append(completion, id)
                          /\ UNCHANGED attempt
    /\ llm_calls' = llm_calls + 1
    /\ UNCHANGED <<gather, client, config_vars, env_vars, graph_vars, legacy_vars, response,
                   error>>

\* ---- the graph executor ------------------------------------------------
\* the unconditional edges of create_skill_execution_graph
edge_broken(node) ==
    CASE node = "initialize"    -> "execute_group"
      [] node = "execute_group" -> "merge_results"
      [] node = "merge_results" -> "checkpoint"
      [] node = "checkpoint"    -> "router"
      [] node = "validate"      -> "router"
      [] node = "human_review"  -> "execute_group"

\* the edges of create_dynamic_selection_graph, which has no checkpoint node
edge_without_checkpoint(node) ==
    CASE node = "initialize"    -> "execute_group"
      [] node = "execute_group" -> "merge_results"
      [] node = "merge_results" -> "router"
      [] node = "checkpoint"    -> "router"
      [] node = "validate"      -> "router"
      [] node = "human_review"  -> "validate"

edge(node) ==
    CASE node = "initialize"    -> "execute_group"
      [] node = "execute_group" -> "merge_results"
      [] node = "merge_results" -> "checkpoint"
      [] node = "checkpoint"    -> "router"
      [] node = "validate"      -> "router"
      [] node = "human_review"  -> "validate"

\* the mapping of add_conditional_edges("router", _route_decision, {...})
conditional_edge(label) ==
    CASE label = "execute_next_group" -> "execute_group"
      [] label = "validate"           -> "validate"
      [] label = "human_review"       -> "human_review"
      [] label = "retry"              -> "execute_group"
      [] label = "complete"           -> "__end__"

\* _route_decision
route_decision(st) ==
    IF st.next_action = "execute_next_group" THEN "execute_next_group"
    ELSE IF st.next_action = "retry" THEN "retry"
    ELSE IF st.next_action = "human_review" THEN "human_review"
    ELSE IF st.next_action = "complete"
         THEN IF st.validation_result = <<>> THEN "validate" ELSE "complete"
    ELSE "validate"

\* compile(interrupt_before=["human_review"]): the invocation stops when the
\* next node is human_review, unless it is the invocation that resumes there
AtInterrupt == next = "human_review" /\ ~resuming

Invoking == call \in {"execute", "resume"}

NodeReady(node) ==
    /\ engine = "graph"
    /\ Invoking
    /\ gather = "idle"
    /\ next = node
    /\ steps < RecursionLimit
    /\ ~AtInterrupt

\* GraphExecutor.execute up to the start of graph.ainvoke
GraphExecute ==
    /\ engine = "graph"
    /\ call = "none"
    /\ next = "__start__"
    /\ state' = InitialState
    /\ next' = "initialize"
    /\ call' = "execute"
    /\ steps' = 0
    /\ snapshot' = schema
    /\ UNCHANGED <<resuming, resumes, resume_base, config_vars, reloads, other, last_load,
                   task_vars, legacy_vars, response, error, llm_calls>>

initialize_execution ==
    /\ NodeReady("initialize")
    /\ IF ~get_schema_found
       THEN \* get_schema_or_raise raises out of graph.ainvoke
            /\ response' = "failed"
            /\ error' = "not_found"
            /\ call' = "aborted"
            /\ UNCHANGED <<state, next, steps>>
       ELSE /\ LET groups == sorted(DOMAIN get_skills_by_group(schema))
                   active == get_active_skills(schema)
               IN state' = [state EXCEPT
                               !.pending_skills = [i \in 1..Len(active) |-> active[i].id],
                               !.current_group = IF groups # <<>> THEN groups[1] ELSE 1,
                               !.status = "running"]
            /\ next' = edge("initialize")
            /\ steps' = steps + 1
            /\ UNCHANGED <<call, response, error>>
    /\ UNCHANGED <<resuming, resumes, resume_base, config_vars, env_vars, task_vars,
                   legacy_vars, llm_calls>>

\* skills_by_group.get(state["current_group"], [])
current_skills ==
    LET by_group == get_skills_by_group(schema)
    IN IF state.current_group \in DOMAIN by_group
       THEN by_group[state.current_group] ELSE <<>>

\* execute_skill_group up to the await of asyncio.gather
execute_skill_group_start ==
    /\ NodeReady("execute_group")
    /\ launch(current_skills)
    /\ client' = clients(current_skills, graph_defaults)
    /\ UNCHANGED <<config_vars, env_vars, graph_vars, legacy_vars, response, error, llm_calls>>

\* execute_skill_group after the gather: the node's update is applied, the
\* results by the add reducer, completed_groups as a last-value channel
execute_skill_group_finish ==
    /\ engine = "graph"
    /\ gather = "running"
    /\ running = {}
    /\ state' = [state EXCEPT
                    !.skill_results = state.skill_results \o gathered(current_skills),
                    !.completed_groups = <<state.current_group>>]
    /\ gather' = "idle"
    /\ next' = edge("execute_group")
    /\ steps' = steps + 1
    /\ UNCHANGED <<running, attempt, returned, calls, completion, slept, client,
                   call, resuming, resumes, resume_base,
                   config_vars, env_vars, legacy_vars, response, error, llm_calls>>

merge_skill_results ==
    /\ NodeReady("merge_results")
    /\ state' = [state EXCEPT
                    !.merged_data = merge_loop(schema.merge_strategy,
                                               state.merged_data, state.skill_results)]
    /\ next' = edge("merge_results")
    /\ steps' = steps + 1
    /\ UNCHANGED <<call, resuming, resumes, resume_base, config_vars, env_vars, task_vars,
                   legacy_vars, response, error, llm_calls>>

save_checkpoint ==
    /\ NodeReady("checkpoint")
    /\ next' = edge("checkpoint")
    /\ steps' = steps + 1
    /\ UNCHANGED <<state, call, resuming, resumes, resume_base, config_vars, env_vars,
                   task_vars, legacy_vars, response, error, llm_calls>>

validate_results ==
    /\ NodeReady("validate")
    /\ LET v == compute_validation(schema, state.merged_data)
       IN state' = [state EXCEPT
                       !.validation_result = <<v>>,
                       !.quality_score = v.quality_score,
                       !.human_review_required =
                            (v.status = "FAIL" /\ Len(v.errors) > 0)]
    /\ next' = edge("validate")
    /\ steps' = steps + 1
    /\ UNCHANGED <<call, resuming, resumes, resume_base, config_vars, env_vars, task_vars,
                   legacy_vars, response, error, llm_calls>>

human_review_node ==
    /\ NodeReady("human_review")
    /\ state' = [state EXCEPT !.status = "paused"]
    /\ next' = edge("human_review")
    /\ resuming' = FALSE
    /\ steps' = steps + 1
    /\ UNCHANGED <<call, resumes, resume_base, config_vars, env_vars, task_vars,
                   legacy_vars, response, error, llm_calls>>

\* a router that compares the retry count with <= and so retries once more
route_update_one_more(st) ==
    LET all_groups == sorted(DOMAIN get_skills_by_group(schema))
        remaining_groups ==
            SelectSeq(all_groups, LAMBDA g : g \notin Range(st.completed_groups))
    IN IF remaining_groups # <<>>
       THEN [st EXCEPT !.next_action = "execute_next_group",
                       !.current_group = remaining_groups[1]]
       ELSE IF /\ st.validation_result # <<>>
               /\ st.validation_result[1].status = "FAIL"
               /\ st.retry_count <= max_retries
       THEN [st EXCEPT !.next_action = "retry",
                       !.should_retry = TRUE,
                       !.retry_count = st.retry_count + 1]
       ELSE IF /\ st.validation_result # <<>>
               /\ st.validation_result[1].status = "FAIL"
               /\ st.human_review_required
       THEN [st EXCEPT !.next_action = "human_review"]
       ELSE [st EXCEPT !.next_action = "complete",
                       !.status = "completed"]

\* the update route_next_action returns, applied to the state
route_update(st) ==
    LET all_groups == sorted(DOMAIN get_skills_by_group(schema))
        remaining_groups ==
            SelectSeq(all_groups, LAMBDA g : g \notin Range(st.completed_groups))
    IN IF remaining_groups # <<>>
       THEN [st EXCEPT !.next_action = "execute_next_group",
                       !.current_group = remaining_groups[1]]
       ELSE IF /\ st.validation_result # <<>>
               /\ st.validation_result[1].status = "FAIL"
               /\ st.retry_count < max_retries
       THEN [st EXCEPT !.next_action = "retry",
                       !.should_retry = TRUE,
                       !.retry_count = st.retry_count + 1]
       ELSE IF /\ st.validation_result # <<>>
               /\ st.validation_result[1].status = "FAIL"
               /\ st.human_review_required
       THEN [st EXCEPT !.next_action = "human_review"]
       ELSE [st EXCEPT !.next_action = "complete",
                       !.status = "completed"]

\* the router node followed by its conditional edge
route_next_action ==
    /\ NodeReady("router")
    /\ state' = route_update(state)
    /\ next' = conditional_edge(route_decision(state'))
    /\ steps' = steps + 1
    /\ UNCHANGED <<call, resuming, resumes, resume_base, config_vars, env_vars, task_vars,
                   legacy_vars, response, error, llm_calls>>

\* a status computation that reports any failed task as FAILED
state_to_response_any_failure(st) ==
    IF st.status = "completed"
    THEN LET failed == SelectSeq(st.skill_results, LAMBDA r : ~r.success)
         IN IF failed # <<>> THEN "failed" ELSE "completed"
    ELSE IF st.status = "paused" THEN "pending"
    ELSE "failed"

\* GraphExecutor._state_to_response: the status of the response
state_to_response(st) ==
    IF st.status = "completed"
    THEN LET failed == SelectSeq(st.skill_results, LAMBDA r : ~r.success)
         IN IF Len(failed) = Len(st.skill_results) /\ Len(st.skill_results) > 0
            THEN "failed"
            ELSE IF failed # <<>> THEN "partial" ELSE "completed"
    ELSE IF st.status = "paused" THEN "pending"
    ELSE "failed"

\* the error of a response built from task results
error_of(results) ==
    IF \E i \in 1..Len(results) : ~results[i].success THEN "task_errors" ELSE "none"

\* graph.ainvoke returns (END reached, or interrupted before human_review)
\* and the caller builds the response
InvokeReturn ==
    /\ engine = "graph"
    /\ Invoking
    /\ gather = "idle"
    /\ next = "__end__" \/ AtInterrupt
    /\ response' = state_to_response(state)
    /\ error' = error_of(state.skill_results)
    /\ call' = "none"
    /\ UNCHANGED <<state, next, steps, resuming, resumes, resume_base, config_vars, env_vars,
                   task_vars, legacy_vars, llm_calls>>

\* graph.ainvoke raises GraphRecursionError: GraphExecutor.execute answers
\* FAILED from its except branch, the resume route answers HTTP 500
RecursionAbort ==
    /\ engine = "graph"
    /\ Invoking
    /\ gather = "idle"
    /\ steps >= RecursionLimit
    /\ next # "__end__"
    /\ ~AtInterrupt
    /\ response' = IF call = "execute" THEN "failed" ELSE "http_500"
    /\ error' = "recursion_limit"
    /\ call' = "aborted"
    /\ UNCHANGED <<state, next, steps, resuming, resumes, resume_base, config_vars, env_vars,
                   task_vars, legacy_vars, llm_calls>>

\* POST /execute/resume/{execution_id} when human review is switched off:
\* the route answers 501 before it reaches the executor
ResumeNotAvailable ==
    /\ engine = "graph"
    /\ call = "none"
    /\ next # "__start__"
    /\ resumes < MaxResumes
    /\ ~enable_human_review
    /\ response' = "http_501"
    /\ error' = "not_available"
    /\ resumes' = resumes + 1
    /\ UNCHANGED <<state, next, call, steps, resuming, resume_base, config_vars, env_vars,
                   task_vars, legacy_vars, llm_calls>>

\* GraphExecutor.resume_execution up to the start of graph.ainvoke(None):
\* aupdate_state when feedback is given, then the invocation continues from
\* the checkpoint.  A thread whose last invocation ran out of steps is not
\* resumed in this model.
resume_execution ==
    /\ engine = "graph"
    /\ call = "none"
    /\ next # "__start__"
    /\ resumes < MaxResumes
    /\ enable_human_review
    /\ \E human_feedback \in {"none", "fb"} :
          state' = IF human_feedback # "none"
                   THEN [state EXCEPT !.human_feedback = human_feedback,
                                      !.human_review_required = FALSE]
                   ELSE state
    /\ resume_base' = [skill_results |-> state.skill_results,
                       merged_data |-> state.merged_data,
                       llm_calls |-> llm_calls,
                       origin |-> IF next = "human_review" THEN "interrupt" ELSE "end"]
    /\ call' = "resume"
    /\ steps' = 0
    /\ resuming' = (next = "human_review")
    /\ resumes' = resumes + 1
    /\ UNCHANGED <<next, config_vars, env_vars, task_vars, legacy_vars, response, error, llm_calls>>

\* ---- the legacy executor ------------------------------------------------
\* SkillExecutor.execute up to the call of _execute_skills
LegacyExecute ==
    /\ engine = "legacy"
    /\ lpc = "start"
    /\ IF ~get_schema_found
       THEN \* get_schema_or_raise raises, the except branch answers
            /\ response' = "failed"
            /\ error' = "not_found"
            /\ lpc' = "done"
            /\ UNCHANGED <<lgroups, snapshot>>
       ELSE /\ snapshot' = schema
            /\ LET skills_to_run == get_active_skills(schema)
               IN IF skills_to_run = <<>>
                  THEN /\ response' = "failed"
                       /\ error' = "no_active_skills"
                       /\ lpc' = "done"
                       /\ UNCHANGED lgroups
                  ELSE /\ lgroups' = sorted(DOMAIN group_skills(skills_to_run))
                       /\ lpc' = "groups"
                       /\ UNCHANGED <<response, error>>
    /\ UNCHANGED <<lgroup, all_results, lmerged, lvalidation, config_vars, reloads,
                   last_load, other, graph_vars, task_vars, llm_calls>>

legacy_group(g) == group_skills(get_active_skills(snapshot))[g]

\* _execute_skills: the next group is taken and its tasks are started
LegacyGroupStart ==
    /\ engine = "legacy"
    /\ lpc = "groups"
    /\ gather = "idle"
    /\ lgroups # <<>>
    /\ lgroup' = Head(lgroups)
    /\ lgroups' = Tail(lgroups)
    /\ launch(legacy_group(Head(lgroups)))
    /\ client' = clients(legacy_group(Head(lgroups)), legacy_defaults)
    /\ UNCHANGED <<lpc, all_results, lmerged, lvalidation, config_vars, env_vars, graph_vars,
                   response, error, llm_calls>>

\* _execute_skills: the gather of the group returns, its results are appended
LegacyGroupFinish ==
    /\ engine = "legacy"
    /\ gather = "running"
    /\ running = {}
    /\ all_results' = all_results \o gathered(legacy_group(lgroup))
    /\ gather' = "idle"
    /\ UNCHANGED <<running, attempt, returned, calls, completion, slept, client,
                   lpc, lgroups, lgroup, lmerged,
                   lvalidation, config_vars, env_vars, graph_vars, response, error, llm_calls>>

\* the final status of SkillExecutor.execute
legacy_status(results) ==
    LET failed_skills == SelectSeq(results, LAMBDA r : ~r.success)
    IN IF Len(failed_skills) = Len(results) THEN "failed"
       ELSE IF failed_skills # <<>> THEN "partial" ELSE "completed"

\* SkillExecutor.execute after _execute_skills: merge, validate, status
LegacyFinish ==
    /\ engine = "legacy"
    /\ lpc = "groups"
    /\ gather = "idle"
    /\ lgroups = <<>>
    /\ lmerged' = merge_loop(snapshot.merge_strategy, EmptyDict, all_results)
    /\ lvalidation' = IF snapshot.output_model # <<>>
                      THEN <<compute_validation(snapshot, lmerged')>> ELSE <<>>
    /\ response' = legacy_status(all_results)
    /\ error' = error_of(all_results)
    /\ lpc' = "done"
    /\ UNCHANGED <<lgroups, lgroup, all_results, config_vars, env_vars, graph_vars, task_vars,
                   llm_calls>>

\* ---- specification ------------------------------------------------------
Next ==
    \/ GraphExecute
    \/ initialize_execution
    \/ execute_skill_group_start
    \/ \E id \in SkillIds(schema) : AttemptSucceeds(id)
    \/ \E id \in SkillIds(schema) : AttemptFails(id)
    \/ execute_skill_group_finish
    \/ merge_skill_results
    \/ save_checkpoint
    \/ route_next_action
    \/ validate_results
    \/ human_review_node
    \/ InvokeReturn
    \/ RecursionAbort
    \/ ResumeNotAvailable
    \/ resume_execution
    \/ LegacyExecute
    \/ LegacyGroupStart
    \/ LegacyGroupFinish
    \/ LegacyFinish

Spec == Init /\ [][Next]_vars

\* ---- properties ---------------------------------------------------------
\* the skills a gather has started: still running, or already returned
Launched == {id \in SkillIds(schema) : id \in running \/ returned[id] # <<>>}

\* the skills the serving executor runs
RunSkills ==
    IF engine = "legacy" THEN get_active_skills(schema) ELSE schema.skills

\* the results accumulated by the serving executor
Accumulated == IF engine = "legacy" THEN all_results ELSE state.skill_results

HasResult(id) == \E i \in 1..Len(Accumulated) : Accumulated[i].skill_id = id

\* ---- the merge applied to lists of results --------------------------------
\* a schema that fixes the merge strategy, as the merge tests build it
MergeSchema(strategy) ==
    [skills |-> <<Skill("A", 1, "active", 0, {}, {})>>,
     merge_strategy |-> strategy,
     validation_rules |-> <<>>,
     output_model |-> <<>>]

\* SkillExecutor._merge_results is about to be called on all_results; the
\* graph is about to run execute_group for the first time
MergeInit ==
    /\ schema \in {MergeSchema(st) : st \in {"first_wins", "last_wins", "merge_deep"}}
    /\ PlainRequest
    /\ loaded = TRUE
    /\ snapshot = schema
    /\ reloads = 0
    /\ last_load = "none"
    /\ other = <<>>
    /\ error = "none"
    /\ enable_human_review = FALSE
    /\ max_parallel_skills \in ParallelChoices
    /\ engine \in {"graph", "legacy"}
    /\ state = [InitialState EXCEPT !.pending_skills = <<"A">>]
    /\ next = "execute_group"
    /\ call = IF engine = "graph" THEN "execute" ELSE "none"
    /\ steps = 0
    /\ resuming = FALSE
    /\ gather = "idle"
    /\ running = {}
    /\ attempt = [id \in SkillIds(schema) |-> 0]
    /\ returned = [id \in SkillIds(schema) |-> <<>>]
    /\ calls = [id \in SkillIds(schema) |-> <<>>]
    /\ completion = <<>>
    /\ slept = [id \in SkillIds(schema) |-> <<>>]
    /\ client = [id \in SkillIds(schema) |-> <<>>]
    /\ response = "none"
    /\ llm_calls = 0
    /\ resumes = 0
    /\ resume_base = NoBase
    /\ lpc = "groups"
    /\ lgroups = <<>>
    /\ lgroup = 0
    /\ all_results = <<>>
    /\ lmerged = EmptyDict
    /\ lvalidation = <<>>

\* a result joins the accumulated list: all_results.append in the legacy
\* executor, the add reducer of skill_results in the graph, where the merge
\* node runs next
AppendResults ==
    /\ Len(Accumulated) < MaxResults
    \* the results a list is drawn from: a success for each parsed object, a
    \* success without data, a failure, and a failure that carries data
    /\ \E r \in {Result("A", TRUE, d, "none", 0) :
                     d \in {Data1, Data2, NestedAB, NestedBC, NestedScalar, ListA, ListB}}
                \cup {Result("A", TRUE, EmptyDict, "none", 0),
                      Result("A", FALSE, EmptyDict, "llm_error", 1),
                      Result("A", FALSE, Data2, "llm_error", 1)} :
          IF engine = "legacy"
          THEN /\ lpc = "groups"
               /\ all_results' = Append(all_results, r)
               /\ UNCHANGED <<state, next>>
          ELSE /\ state' = [state EXCEPT !.skill_results = Append(@, r)]
               /\ next' = edge("execute_group")
               /\ UNCHANGED all_results
    /\ UNCHANGED <<call, steps, resuming, resumes, resume_base, lpc, lgroups, lgroup,
                   lmerged, lvalidation, config_vars, env_vars, task_vars, response, error, llm_calls>>

MergeNext ==
    \/ AppendResults
    \/ merge_skill_results
    \/ LegacyFinish

MergeSpec == MergeInit /\ [][MergeNext]_vars

\* ---- the validation applied to merged objects ------------------------------
SumOK      == ("total" :> Num(100)) @@ ("a" :> Num(60)) @@ ("b" :> Num(40))
SumBad     == ("total" :> Num(100)) @@ ("a" :> Num(60)) @@ ("b" :> Num(30))
SumDiff    == ("total" :> Num(20)) @@ ("a" :> Num(60)) @@ ("b" :> Num(40))

\* the merged objects: sums that hold and that do not, an operand that is
\* missing, nested paths, a text where a number is expected, values that are
\* present but falsy next to a null, a scalar where a path expects an object
ValidateData ==
    {SumOK, SumBad, SumDiff,
     ("total" :> Num(60)) @@ ("a" :> Num(60)),
     ("fin" :> Obj(("total" :> Num(100)) @@ ("a" :> Num(60)) @@ ("b" :> Num(40)))),
     ("total" :> Num(100)) @@ ("a" :> Str("60")) @@ ("b" :> Num(40)),
     ("total" :> Num(0)) @@ ("a" :> Num(0)) @@ ("s" :> Str("")) @@ ("f" :> Bool(FALSE))
         @@ ("l" :> Arr(<<>>)) @@ ("n" :> None),
     ("fin" :> Num(5)) @@ ("a" :> Num(60))}

RuleSumAB == ValidationRule("sum_ab", "sum_check",
                 [expected |-> <<"total">>,
                  operands |-> <<Operand(FALSE, <<"a">>), Operand(FALSE, <<"b">>)>>], "error")
RuleDiffAB == ValidationRule("diff_ab", "sum_check",
                 [expected |-> <<"total">>,
                  operands |-> <<Operand(FALSE, <<"a">>), Operand(TRUE, <<"b">>)>>], "warning")
\* rules that fail on every object of ValidateData
RuleAlwaysError == ValidationRule("never", "required", [fields |-> <<<<"zz">>>>], "error")
RuleAlwaysWarn == ValidationRule("hardly", "required", [fields |-> <<<<"zz">>>>], "warning")

\* the rule under test: sums, a nested sum, required paths, a range, rules
\* with malformed params, and a rule of an unknown type
ProbeRules ==
    {RuleSumAB, RuleDiffAB,
     ValidationRule("sum_fin", "sum_check",
         [expected |-> <<"fin", "total">>,
          operands |-> <<Operand(FALSE, <<"fin", "a">>), Operand(FALSE, <<"fin", "b">>)>>],
         "error"),
     ValidationRule("need", "required",
         [fields |-> <<<<"a">>, <<"fin", "total">>, <<"n">>, <<"s">>, <<"f">>, <<"l">>>>],
         "error"),
     ValidationRule("range_a", "range_check", [field |-> <<"a">>, min |-> 0, max |-> 50],
         "error"),
     ValidationRule("bad_sum", "sum_check", [operands |-> <<Operand(FALSE, <<"a">>)>>],
         "error"),
     ValidationRule("bad_range", "range_check", [min |-> 0, max |-> 50], "error"),
     ValidationRule("bad_operand", "sum_check",
         [expected |-> <<"total">>, operands |-> <<[number |-> 3]>>], "error"),
     ValidationRule("odd", "custom", EmptyDict, "warning")}

\* a schema with e failing error rules, w failing warning rules, the rules of
\* probe, and an output model with the required keys om
ValidateSchema(e, w, probe, om) ==
    [skills |-> <<Skill("A", 1, "active", 0, {}, {})>>,
     merge_strategy |-> "last_wins",
     validation_rules |-> [i \in 1..e |-> RuleAlwaysError]
                              \o [i \in 1..w |-> RuleAlwaysWarn] \o probe,
     output_model |-> <<om>>]

\* the one task has returned the object to validate: SkillExecutor.execute is
\* about to merge and validate, the graph is about to run validate
ValidateInit ==
    /\ schema \in {ValidateSchema(e, w, probe, om) :
                      e \in 0..MaxErrors, w \in 0..MaxWarnings,
                      probe \in {<<>>} \cup {<<r>> : r \in ProbeRules},
                      om \in {{}, {"total"}}}
    /\ PlainRequest
    /\ loaded = TRUE
    /\ snapshot = schema
    /\ reloads = 0
    /\ last_load = "none"
    /\ other = <<>>
    /\ error = "none"
    /\ enable_human_review = FALSE
    /\ max_parallel_skills = Max(ParallelChoices)
    /\ engine \in {"graph", "legacy"}
    /\ \E d \in ValidateData :
          /\ state = [InitialState EXCEPT
                          !.pending_skills = <<"A">>,
                          !.completed_groups = <<1>>,
                          !.skill_results = <<Result("A", TRUE, d, "none", 0)>>,
                          !.merged_data = d,
                          !.next_action = "validate",
                          !.status = "completed"]
          /\ all_results = <<Result("A", TRUE, d, "none", 0)>>
    /\ next = "validate"
    /\ call = IF engine = "graph" THEN "execute" ELSE "none"
    /\ steps = 0
    /\ resuming = FALSE
    /\ gather = "idle"
    /\ running = {}
    /\ attempt = [id \in SkillIds(schema) |-> 0]
    /\ returned = [id \in SkillIds(schema) |-> <<>>]
    /\ calls = [id \in SkillIds(schema) |-> <<>>]
    /\ completion = <<>>
    /\ slept = [id \in SkillIds(schema) |-> <<>>]
    /\ client = [id \in SkillIds(schema) |-> <<>>]
    /\ response = "none"
    /\ llm_calls = 0
    /\ resumes = 0
    /\ resume_base = NoBase
    /\ lpc = "groups"
    /\ lgroups = <<>>
    /\ lgroup = 0
    /\ lmerged = EmptyDict
    /\ lvalidation = <<>>

ValidateNext ==
    \/ validate_results
    \/ LegacyFinish

ValidateSpec == ValidateInit /\ [][ValidateNext]_vars

\* ---- a reload of the schema while an execution runs -----------------------
\* the schema as the execution finds it
SchemaBeforeReload ==
    [skills |-> <<Skill("A", 1, "active", 0, {Data1, Data2}, {"timeout"})>>,
     merge_strategy |-> "first_wins",
     validation_rules |-> <<ValidationRule("need_x", "required", [fields |-> <<<<"x">>>>],
                                           "warning")>>,
     output_model |-> <<>>]

\* the schema after the repository changed: the task moved to a second group,
\* another merge strategy, another rule
SchemaAfterReload ==
    [skills |-> <<Skill("A", 2, "active", 0, {Data1, Data2}, {"timeout"})>>,
     merge_strategy |-> "last_wins",
     validation_rules |-> <<ValidationRule("need_z", "required", [fields |-> <<<<"z">>>>],
                                           "error")>>,
     output_model |-> <<>>]

\* what _load_schema puts in the registry in place of sch; a schema whose
\* files did not change is loaded as it was
reloaded(sch) ==
    IF sch = SchemaBeforeReload THEN SchemaAfterReload
    ELSE IF sch = SchemaAfterReload THEN SchemaBeforeReload
    ELSE sch

\* a load that puts the new config into the entry before the skills are read
load_schema_in_place(sch, outcome) ==
    IF outcome = "loaded" THEN reloaded(sch)
    ELSE [sch EXCEPT !.merge_strategy = reloaded(sch).merge_strategy,
                     !.validation_rules = reloaded(sch).validation_rules]

\* _load_schema: config, skills and output model are read into locals, then
\* self._schemas[schema_id] = loaded_schema; an exception of the loader leaves
\* the entry as it was
load_schema(sch, outcome) ==
    IF outcome = "loaded" THEN reloaded(sch) ELSE sch

ReloadInit ==
    /\ loaded = TRUE
    /\ schema \in {SchemaBeforeReload, SchemaTwoGroups}
    /\ PlainRequest
    /\ Fresh
    /\ max_parallel_skills = Max(ParallelChoices)

\* SkillRegistry._load_schema from a webhook or a reload: the entry of the
\* registry is replaced by a new LoadedSchema.  Taken between two steps of a
\* running execution; the tasks of a gather keep the Skill objects they were
\* created with.
Reload ==
    /\ reloads < MaxReloads
    /\ gather = "idle"
    /\ \/ engine = "graph" /\ Invoking
       \/ engine = "legacy" /\ lpc = "groups"
    \* the new LoadedSchema is installed, or the loader raised on the new files
    /\ \E outcome \in {"loaded", "failed"} :
          /\ schema' = load_schema(schema, outcome)
          /\ last_load' = outcome
    /\ reloads' = reloads + 1
    /\ UNCHANGED <<enable_human_review, max_parallel_skills, default_vendor, request_vendor,
                   request_model, loaded, engine, snapshot,
                   other, graph_vars, task_vars, legacy_vars, response, error, llm_calls>>

ReloadNext == Next \/ Reload

ReloadSpec == ReloadInit /\ [][ReloadNext]_vars

\* ---- two invocations on one execution ----------------------------------------
\* the invocation that is scheduled, as the graph variables hold it
Scheduled ==
    [state |-> state, next |-> next, call |-> call, steps |-> steps,
     resuming |-> resuming]

ConcurrentInit ==
    /\ loaded = TRUE
    /\ schema = SchemaReview
    /\ PlainRequest
    /\ Fresh
    /\ engine = "graph"
    /\ enable_human_review
    /\ max_parallel_skills = Max(ParallelChoices)

\* POST /execute/resume/{execution_id} while an invocation of the execution
\* is in progress: the route and GraphExecutor.resume_execution take no lock
\* and read no status, so aupdate_state is applied and graph.ainvoke(None)
\* starts a second invocation from the last checkpoint
OverlappingResume ==
    /\ engine = "graph"
    /\ enable_human_review
    /\ Invoking
    /\ gather = "idle"
    /\ next \notin {"__start__", "initialize"}
    /\ other = <<>>
    /\ resumes < MaxResumes
    /\ other' = <<Scheduled>>
    /\ \E human_feedback \in {"none", "fb"} :
          state' = IF human_feedback # "none"
                   THEN [state EXCEPT !.human_feedback = human_feedback,
                                      !.human_review_required = FALSE]
                   ELSE state
    /\ call' = "resume"
    /\ steps' = 0
    /\ resuming' = (next = "human_review")
    /\ resumes' = resumes + 1
    /\ UNCHANGED <<next, resume_base, config_vars, snapshot, reloads, last_load,
                   task_vars,
                   legacy_vars, response, error, llm_calls>>

\* the event loop runs the other invocation again.  Both are coroutines of
\* one loop and may yield at every await; of these schedules the model keeps
\* the one where the later invocation runs until it returns and the earlier
\* one continues after it.
Switch ==
    /\ other # <<>>
    /\ ~Invoking
    /\ gather = "idle"
    /\ other' = <<>>
    /\ state' = other[1].state
    /\ next' = other[1].next
    /\ call' = other[1].call
    /\ steps' = other[1].steps
    /\ resuming' = other[1].resuming
    /\ UNCHANGED <<resumes, resume_base, config_vars, snapshot, reloads, last_load,
                   task_vars,
                   legacy_vars, response, error, llm_calls>>

ConcurrentNext ==
    \/ GraphExecute
    \/ initialize_execution
    \/ execute_skill_group_start
    \/ \E id \in SkillIds(schema) : AttemptSucceeds(id)
    \/ \E id \in SkillIds(schema) : AttemptFails(id)
    \/ execute_skill_group_finish
    \/ merge_skill_results
    \/ save_checkpoint
    \/ route_next_action
    \/ validate_results
    \/ human_review_node
    \/ InvokeReturn
    \/ resume_execution
    \/ OverlappingResume
    \/ Switch

ConcurrentSpec == ConcurrentInit /\ [][ConcurrentNext]_vars

\* C1: while a group's tasks are started or in flight, they all belong to one
\* parallel_group, and every task of every lower-numbered group has already
\* returned its result (both executors).
C1_GroupsInAscendingOrder ==
    gather = "running" =>
        /\ \A a, b \in Launched :
              SkillById(schema, a).parallel_group = SkillById(schema, b).parallel_group
        /\ \A a \in Launched : \A i \in 1..Len(RunSkills) :
              RunSkills[i].parallel_group < SkillById(schema, a).parallel_group
                  => HasResult(RunSkills[i].id)

C1_Witness ==
    /\ schema = SchemaInterleaved
    /\ engine = "graph"
    /\ running = {"B", "D"}
    /\ HasResult("A") /\ HasResult("C")

\* C2: when GraphExecutor.execute (or a resume) has returned, the graph is at
\* END or at the interrupt before human_review.
C2_ExecuteReachesEndOrInterrupt ==
    (engine = "graph" /\ ~Invoking /\ next # "__start__")
        => (next = "__end__" \/ AtInterrupt)

\* C3: an execute_group step keeps every group that was in completed_groups
\* and adds current_group.
C3_CompletedGroupsGrow ==
    [][execute_skill_group_finish =>
          (Range(state.completed_groups) \cup {state.current_group})
              \subseteq Range(state'.completed_groups)]_vars

\* C4: the router step that decides "retry" increments retry_count and clears
\* completed_groups and validation_result.
C4_RetryClearsAndRestarts ==
    [][(route_next_action /\ state'.next_action = "retry") =>
          /\ state'.retry_count = state.retry_count + 1
          /\ state'.completed_groups = <<>>
          /\ state'.validation_result = <<>>]_vars

\* C5: an invocation that has stopped at the human-review interrupt leaves the
\* stored status 'paused' and has answered with the paused status (PENDING).
C5_InterruptIsPaused ==
    (engine = "graph" /\ call = "none" /\ AtInterrupt /\ response # "http_501")
        => (state.status = "paused" /\ response = "pending")

\* C6: once a resume of an execution paused for human review has returned,
\* the graph is at END.
C6_ResumeReachesTerminal ==
    (call = "none" /\ resume_base.origin = "interrupt") => next = "__end__"

\* C7: the update of a resume from the interrupt records the feedback and
\* clears the review flag, and from then on no LLM call is made and
\* skill_results and merged_data stay as they were in the checkpoint.
C7_ResumeKeepsResults ==
    /\ [][(resume_execution /\ next = "human_review"
              /\ state'.human_feedback # state.human_feedback)
            => (state'.human_feedback = "fb" /\ ~state'.human_review_required)]_vars
    /\ [](resume_base.origin = "interrupt" =>
            /\ llm_calls = resume_base.llm_calls
            /\ gather = "idle"
            /\ state.skill_results = resume_base.skill_results
            /\ state.merged_data = resume_base.merged_data)

C7_Witness ==
    /\ resume_base.origin = "interrupt"
    /\ call = "none"
    /\ state.human_feedback = "fb"
    /\ Len(state.skill_results) > 0

\* C8: a resume request for an execution whose stored status is not 'paused'
\* is rejected: the stored state stays as it is and no invocation starts.
C8_ResumeOfNonPausedRejected ==
    [][(resumes' = resumes + 1 /\ state.status # "paused")
          => (state' = state /\ call' = "none")]_vars

\* C9: with human review switched off, no invocation ends waiting at the
\* human-review interrupt.
C9_NoInterruptWithoutHumanReview ==
    (engine = "graph" /\ ~enable_human_review /\ call = "none") => ~AtInterrupt

\* C10: once the status is 'completed' or 'failed', it never changes, no
\* further node runs and no task is invoked.
C10_TerminalStatusIsFinal ==
    [][(engine = "graph" /\ state.status \in {"completed", "failed"})
          => (state'.status = state.status /\ next' = next
              /\ llm_calls' = llm_calls)]_vars

\* the tasks of the group whose gather is awaited
gather_skills ==
    IF engine = "legacy" THEN legacy_group(lgroup) ELSE current_skills

\* number of failed calls in a task's call history
failures(h) == Cardinality({i \in 1..Len(h) : h[i] # "ok"})

\* the task's attempt loop has run to its end: a successful call, or every
\* allowed attempt has failed
ran_to_end(id) ==
    /\ calls[id] # <<>>
    /\ \/ calls[id][Len(calls[id])] = "ok"
       \/ Len(calls[id]) = SkillById(schema, id).retry_count + 1

\* C11: a task makes at most retry_count + 1 calls to the LLM client, and no
\* call after its first successful one.
C11_AtMostRetryCountPlusOneCalls ==
    \A id \in SkillIds(schema) :
        /\ Len(calls[id]) <= SkillById(schema, id).retry_count + 1
        /\ \A i \in 1..(Len(calls[id]) - 1) : calls[id][i] # "ok"

C11_Witness ==
    /\ schema = SchemaRetry
    /\ Len(calls["R"]) = 3
    /\ calls["R"][3] = "ok"
    /\ returned["R"] # <<>>

\* C12: the result of a task reports retries = number of failed calls; after
\* k failures and a success it is success with retries = k, after failures on
\* all retry_count + 1 attempts it is a failure whose error is the last
\* failure's message and whose retries is retry_count + 1.
C12_RetriesCountsFailedAttempts ==
    \A id \in SkillIds(schema) :
        returned[id] # <<>> =>
            LET r  == returned[id][1]
                h  == calls[id]
                rc == SkillById(schema, id).retry_count
            IN /\ r.retries = failures(h)
               /\ r.success => (h[Len(h)] = "ok" /\ failures(h) = Len(h) - 1
                                 /\ failures(h) <= rc)
               /\ ~r.success => (failures(h) = rc + 1 /\ Len(h) = rc + 1
                                  /\ r.error = h[Len(h)] /\ r.retries = rc + 1)

C12_Witness ==
    /\ schema = SchemaRetry
    /\ calls["R"] = <<"timeout", "llm_error", "ok">>
    /\ returned["R"] # <<>> /\ returned["R"][1].success
    /\ returned["R"][1].retries = 2
    /\ returned["U"] # <<>> /\ ~returned["U"][1].success
    /\ returned["U"][1].retries = 2

\* C13: a task never raises to the gather: whatever way its attempts fail it
\* ends with a result, a failed result carries an error and a successful one
\* carries none, and every result the group run appends has this shape.
C13_TaskNeverRaises ==
    /\ \A id \in SkillIds(schema) :
          returned[id] # <<>> =>
              LET r == returned[id][1]
              IN /\ "exception" \notin DOMAIN r
                 /\ r.success => r.error = "none"
                 /\ ~r.success => (r.error # "none" /\ r.error = calls[id][Len(calls[id])])
    /\ \A i \in 1..Len(Accumulated) :
          Accumulated[i].success <=> Accumulated[i].error = "none"

C13_Witness ==
    /\ schema = SchemaRetry
    /\ returned["R"] # <<>> /\ returned["R"][1].error = "exception"
    /\ returned["U"] # <<>> /\ returned["U"][1].error = "unknown_vendor"
    /\ Len(Accumulated) = 2

\* C14: the gather of a group returns only when every task has returned, and
\* appends exactly one result per task, in the order of the input tasks
\* whatever the order of completion; every task has run its own attempt loop
\* to the end, whatever its siblings did.
C14_GatherKeepsInputOrder ==
    [][(gather = "running" /\ gather' = "idle") =>
          LET skills == gather_skills
              batch  == SubSeq(Accumulated', Len(Accumulated) + 1, Len(Accumulated'))
          IN /\ running = {}
             /\ Len(batch) = Len(skills)
             /\ \A i \in 1..Len(skills) :
                   /\ batch[i].skill_id = skills[i].id
                   /\ batch[i] = returned[skills[i].id][1]
                   /\ ran_to_end(skills[i].id)]_vars

C14_Witness ==
    /\ schema = SchemaRetry
    /\ gather = "idle"
    /\ completion = <<"U", "R">>
    /\ Len(Accumulated) = 2
    /\ Accumulated[1].skill_id = "R" /\ Accumulated[1].success
    /\ Accumulated[2].skill_id = "U" /\ ~Accumulated[2].success

\* the tasks of the group that have a call to the LLM client in flight: the
\* gather starts every coroutine, and each runs up to its awaited call
in_flight == running

\* C15: the number of tasks of a group with a call in flight never exceeds
\* settings.max_parallel_skills.
C15_InFlightBoundedByMaxParallel ==
    gather = "running" => Cardinality(in_flight) <= max_parallel_skills

\* the results the merge loop does not skip
contributing(results) == SelectSeq(results, LAMBDA r : r.success /\ r.data # EmptyDict)

\* the top-level keys of the contributing results
keys_of(c) == UNION {DOMAIN c[i].data : i \in 1..Len(c)}

\* positions of the results that contain key k
holders(c, k) == {i \in 1..Len(c) : k \in DOMAIN c[i].data}

\* a merge has just been computed over the accumulated results
JustMerged ==
    \/ engine = "legacy" /\ lpc = "done"
    \/ engine = "graph" /\ next = "checkpoint"

\* the merged object of the serving executor
Merged == IF engine = "legacy" THEN lmerged ELSE state.merged_data

\* C16: with FIRST_WINS the merged object has every key of every successful
\* result with data, and each key holds the value of the first such result,
\* in list order, that contains it.
C16_FirstWins ==
    (JustMerged /\ schema.merge_strategy = "first_wins") =>
        LET c == contributing(Accumulated)
        IN /\ DOMAIN Merged = keys_of(c)
           /\ \A k \in keys_of(c) : Merged[k] = c[Min(holders(c, k))].data[k]

C16_Witness ==
    /\ JustMerged /\ schema.merge_strategy = "first_wins"
    /\ Len(Accumulated) = 3
    /\ Accumulated[1].data = Data1 /\ ~Accumulated[2].success
    /\ Accumulated[3].data = Data2 /\ Accumulated[3].success
    /\ Merged = ("x" :> Num(1)) @@ ("y" :> Num(1))

\* C17: with LAST_WINS each key of the merged object holds the value of the
\* last successful result with data, in list order, that contains it.
C17_LastWins ==
    (JustMerged /\ schema.merge_strategy = "last_wins") =>
        LET c == contributing(Accumulated)
        IN /\ DOMAIN Merged = keys_of(c)
           /\ \A k \in keys_of(c) : Merged[k] = c[Max(holders(c, k))].data[k]

C17_Witness ==
    /\ JustMerged /\ schema.merge_strategy = "last_wins"
    /\ Len(Accumulated) = 3
    /\ Accumulated[1].data = Data2 /\ Accumulated[1].success
    /\ Accumulated[2].data = Data1 /\ Accumulated[2].success
    /\ ~Accumulated[3].success
    /\ Merged = ("x" :> Num(1)) @@ ("y" :> Num(1))

\* the positions, among the holders of k, of the run of objects that ends
\* the list: every holder after the last one whose value is not an object
object_run(c, k) ==
    LET others == {i \in holders(c, k) : ~IsDict(c[i].data[k])}
    IN {i \in holders(c, k) : \A j \in others : j < i}

\* C18: with MERGE_DEEP, at each key a value that is not an object replaces
\* what was there, an object replaces a value that is not an object, and
\* objects that follow each other are merged key by key, the later value
\* winning inside and the keys of either side being kept;
\* [{nested:{a:1,b:2}}, {nested:{b:3,c:4}}] gives {nested:{a:1,b:3,c:4}}.
C18_MergeDeep ==
    (JustMerged /\ schema.merge_strategy = "merge_deep") =>
        LET c == contributing(Accumulated)
        IN /\ DOMAIN Merged = keys_of(c)
           /\ \A k \in keys_of(c) :
                 LET last == c[Max(holders(c, k))].data[k]
                     run  == object_run(c, k)
                 IN IF ~IsDict(last)
                    THEN Merged[k] = last
                    ELSE /\ IsDict(Merged[k])
                         /\ DOMAIN Merged[k][2] =
                                UNION {DOMAIN c[i].data[k][2] : i \in run}
                         /\ \A j \in DOMAIN Merged[k][2] :
                               Merged[k][2][j] =
                                  c[Max({i \in run : j \in DOMAIN c[i].data[k][2]})].data[k][2][j]
           /\ (Len(c) = 2 /\ c[1].data = NestedAB /\ c[2].data = NestedBC) =>
                 Merged = ("nested" :> Obj(("a" :> Num(1)) @@ ("b" :> Num(3))
                                            @@ ("c" :> Num(4))))

C18_Witness ==
    /\ JustMerged /\ schema.merge_strategy = "merge_deep"
    /\ Len(Accumulated) = 3
    /\ Accumulated[1].data = NestedScalar /\ Accumulated[1].success
    /\ Accumulated[2].data = NestedAB /\ Accumulated[2].success
    /\ Accumulated[3].data = NestedBC /\ Accumulated[3].success
    /\ Merged = ("nested" :> Obj(("a" :> Num(1)) @@ ("b" :> Num(3)) @@ ("c" :> Num(4))))

\* C19: after every merge step of the graph executor, which starts from the
\* previous merged_data and re-applies all skill_results, merged_data equals
\* the merge from an empty object over the successful results with data, in
\* list order.
C19_MergedDataIsFunctionOfResults ==
    (engine = "graph" /\ next = "checkpoint") =>
        state.merged_data =
            merge_loop(schema.merge_strategy, EmptyDict, contributing(state.skill_results))

C19_Witness ==
    /\ engine = "graph" /\ next = "checkpoint"
    /\ schema.merge_strategy = "merge_deep"
    /\ steps = 3
    /\ Len(state.skill_results) = 3
    /\ state.skill_results[1].data = ListA /\ state.skill_results[1].success
    /\ state.skill_results[2].data = ListB /\ state.skill_results[2].success
    /\ state.skill_results[3].data = NestedAB /\ state.skill_results[3].success

\* Failed, Partial or Completed as the spec derives it from the task results
status_of(results) ==
    IF \A i \in 1..Len(results) : ~results[i].success THEN "failed"
    ELSE IF \E i \in 1..Len(results) : ~results[i].success THEN "partial"
    ELSE "completed"

\* C20: the status of the response of an execution that ran tasks is Failed
\* if every result failed, Partial if some failed and some succeeded, and
\* Completed if all succeeded, in SkillExecutor.execute and in
\* GraphExecutor._state_to_response on a completed state.
C20_StatusIsFunctionOfResults ==
    [][/\ LegacyFinish => response' = status_of(all_results)
       /\ (InvokeReturn /\ state.status = "completed" /\ state.skill_results # <<>>)
             => response' = status_of(state.skill_results)]_vars

C20_Witness ==
    /\ engine = "graph"
    /\ call = "none"
    /\ next = "__end__"
    /\ state.status = "completed"
    /\ response = "partial"
    /\ \E i, j \in 1..Len(state.skill_results) :
          state.skill_results[i].success /\ ~state.skill_results[j].success

\* C21: an execution of a schema without active skills ends at once with
\* status FAILED and the error 'no active skills', and makes no LLM call
\* (both executors).
C21_NoActiveSkillsFailsAtOnce ==
    (loaded /\ get_active_skills(schema) = <<>>) =>
        /\ llm_calls = 0
        /\ response \in {"completed", "partial", "failed", "pending"}
              => (response = "failed" /\ error = "no_active_skills")

\* C22: a skill that is not active is never passed to the task runner and
\* never has a result (both executors).
C22_InactiveSkillNeverRuns ==
    \A id \in SkillIds(schema) :
        SkillById(schema, id).status # "active" =>
            /\ id \notin running
            /\ calls[id] = <<>>
            /\ ~HasResult(id)

\* C30: a request whose skill_name names no loaded schema is answered with
\* status FAILED and a 'not found' error, no LLM call is made and the
\* registry stays as it is (both executors).
C30_SchemaNotFoundFails ==
    /\ [](~loaded =>
            /\ llm_calls = 0
            /\ gather = "idle"
            /\ response # "none" => (response = "failed" /\ error = "not_found"))
    /\ [][~loaded => (loaded' = loaded /\ schema' = schema)]_vars

C30_Witness ==
    /\ ~loaded
    /\ engine = "graph"
    /\ call = "aborted"
    /\ response = "failed"
    /\ error = "not_found"

\* the ValidationResult of the serving executor, <<>> before validation
Validation == IF engine = "legacy" THEN lvalidation ELSE state.validation_result

\* the check of the i-th rule in the ValidationResult
RuleCheck(i) ==
    Validation[1].checks[Len(Validation[1].checks) - Len(schema.validation_rules) + i]

\* C25: the status of a ValidationResult is FAIL iff errors is not empty,
\* REVIEW iff errors is empty and warnings is not, PASS iff both are empty; a
\* failed output-model check always puts an error in the list.
C25_ValidationStatusFromLists ==
    Validation # <<>> =>
        LET v == Validation[1]
        IN /\ v.status = "FAIL" <=> v.errors # <<>>
           /\ v.status = "REVIEW" <=> (v.errors = <<>> /\ v.warnings # <<>>)
           /\ v.status = "PASS" <=> (v.errors = <<>> /\ v.warnings = <<>>)
           /\ (\E k \in schema.output_model[1] : k \notin DOMAIN Merged)
                 => (v.errors # <<>> /\ v.errors[1] = "pydantic_validation"
                     /\ v.status = "FAIL")

C25_Witness ==
    /\ Validation # <<>>
    /\ Validation[1].status = "FAIL"
    /\ Validation[1].errors = <<"pydantic_validation">>
    /\ Validation[1].warnings # <<>>
    /\ schema.validation_rules # <<>>
    /\ \A i \in 1..Len(schema.validation_rules) :
          schema.validation_rules[i].severity = "warning"

\* C26: quality_score = max(0, min(100, 100 - 15 e - 5 w)) for e errors and
\* w warnings; it lies in 0..100, is 100 exactly when e = w = 0, and one more
\* error or warning never gives a higher score.
C26_QualityScoreClamped ==
    Validation # <<>> =>
        LET v   == Validation[1]
            e   == Len(v.errors)
            w   == Len(v.warnings)
            raw == 100 - 15 * e - 5 * w
        IN /\ v.quality_score = (IF raw < 0 THEN 0 ELSE IF raw > 100 THEN 100 ELSE raw)
           /\ v.quality_score \in 0..100
           /\ v.quality_score = 100 <=> (e = 0 /\ w = 0)
           /\ quality(e + 1, w) <= v.quality_score
           /\ quality(e, w + 1) <= v.quality_score

C26_Witness ==
    /\ Validation # <<>>
    /\ Len(Validation[1].errors) >= 7
    /\ Validation[1].quality_score = 0

\* a dotted path resolves in an object: every part is a key of the object
\* reached so far, whatever the value at the end
RECURSIVE resolves(_, _)
resolves(current, parts) ==
    IF parts = <<>> THEN TRUE
    ELSE /\ current[1] = "obj"
         /\ Head(parts) \in DOMAIN current[2]
         /\ resolves(current[2][Head(parts)], Tail(parts))

\* the number an operand stands for: 0 when its path does not resolve or
\* its value is empty
term(data, op) ==
    LET v == get_nested_value(Obj(data), op.path)
    IN IF resolves(Obj(data), op.path) /\ v[1] = "num" THEN v[2] ELSE 0

\* the signed sum of the operands, from the first to the last
RECURSIVE signed_sum(_, _)
signed_sum(data, ops) ==
    IF ops = <<>> THEN 0
    ELSE (IF Head(ops).neg THEN 0 - term(data, Head(ops)) ELSE term(data, Head(ops)))
            + signed_sum(data, Tail(ops))

\* the rule's params are well formed and its operands hold numbers or nothing
summable(rule, data) ==
    /\ "expected" \in DOMAIN rule.params
    /\ \A i \in 1..Len(rule.params.operands) :
          /\ "path" \in DOMAIN rule.params.operands[i]
          /\ LET v == get_nested_value(Obj(data), rule.params.operands[i].path)
             IN v[1] \in {"num", "null"}

\* C27: a sum_check passes iff the value at 'expected' equals the signed sum
\* of the operands, '-' operands subtracted and unresolved operands counted
\* as 0; {total:100, a:60, b:40} with [a, b] passes, and with b = 30 it
\* fails with expected 100 and calculated 90.
C27_SumCheck ==
    Validation # <<>> =>
        \A i \in 1..Len(schema.validation_rules) :
            LET rule  == schema.validation_rules[i]
                check == RuleCheck(i)
            IN (rule.type = "sum_check" /\ summable(rule, Merged)) =>
                  /\ check.status \in {"passed", "failed"}
                  /\ check.status = "passed" <=>
                        /\ resolves(Obj(Merged), rule.params.expected)
                        /\ get_nested_value(Obj(Merged), rule.params.expected)
                               = Num(signed_sum(Merged, rule.params.operands))
                  /\ (rule = RuleSumAB /\ Merged = SumOK) => check.status = "passed"
                  /\ (rule = RuleSumAB /\ Merged = SumBad) =>
                        check.error = <<"expected", Num(100), "calculated", 90>>

C27_Witness ==
    /\ Validation # <<>>
    /\ Merged = SumDiff
    /\ \E i \in 1..Len(schema.validation_rules) :
          /\ schema.validation_rules[i] = RuleDiffAB
          /\ RuleCheck(i).status = "passed"

\* C28: a required rule fails iff one of its paths does not resolve in the
\* merged data, and reports exactly the paths that do not resolve; a path
\* that resolves to a falsy value or to null is not reported.
C28_RequiredReportsUnresolvedPaths ==
    Validation # <<>> =>
        \A i \in 1..Len(schema.validation_rules) :
            LET rule  == schema.validation_rules[i]
                check == RuleCheck(i)
                unresolved == SelectSeq(rule.params.fields,
                                        LAMBDA f : ~resolves(Obj(Merged), f))
            IN rule.type = "required" =>
                  /\ check.status = "failed" <=> unresolved # <<>>
                  /\ check.status = "failed" => check.error = <<"missing", unresolved>>

\* the params of a rule lack what its type needs
malformed(rule) ==
    \/ rule.type = "sum_check" /\ "expected" \notin DOMAIN rule.params
    \/ rule.type = "sum_check" /\ "operands" \in DOMAIN rule.params
          /\ \E i \in 1..Len(rule.params.operands) :
                "path" \notin DOMAIN rule.params.operands[i]
    \/ rule.type = "range_check" /\ "field" \notin DOMAIN rule.params

\* C29: an execution of a schema with a rule whose params are malformed ends
\* FAILED with an error that says so, and is not retried.
C29_MalformedRuleIsFatal ==
    (/\ loaded
     /\ Validation # <<>>
     /\ \E i \in 1..Len(schema.validation_rules) : malformed(schema.validation_rules[i])
     /\ response \in {"completed", "partial", "failed", "pending"})
        => (response = "failed" /\ error \notin {"none", "task_errors"})

\* ---- the vendor and the model of a task ------------------------------------
\* the vendors with a configured default model
Vendors == {"anthropic", "openai", "gemini"}

\* one group with one task whose config names the vendor v and the model m
ResolveSchema(v, m) ==
    [skills |-> <<WithLLM(Skill("A", 1, "active", 0, {Data1}, {"timeout"}), v, m)>>,
     merge_strategy |-> "last_wins",
     validation_rules |-> <<>>,
     output_model |-> <<>>]

ResolveInit ==
    /\ loaded = TRUE
    /\ schema \in {ResolveSchema(v, m) :
                      v \in Vendors \cup {"none"}, m \in {"none", "skill_model"}}
    /\ default_vendor \in Vendors
    /\ request_vendor \in Vendors \cup {"none"}
    /\ request_model \in {"none", "request_model"}
    /\ Fresh
    /\ enable_human_review = FALSE
    /\ max_parallel_skills = Max(ParallelChoices)

\* one request, served by either executor
ResolveNext ==
    \/ GraphExecute
    \/ initialize_execution
    \/ execute_skill_group_start
    \/ \E id \in SkillIds(schema) : AttemptSucceeds(id)
    \/ \E id \in SkillIds(schema) : AttemptFails(id)
    \/ execute_skill_group_finish
    \/ merge_skill_results
    \/ save_checkpoint
    \/ route_next_action
    \/ validate_results
    \/ InvokeReturn
    \/ LegacyExecute
    \/ LegacyGroupStart
    \/ LegacyGroupFinish
    \/ LegacyFinish

ResolveSpec == ResolveInit /\ [][ResolveNext]_vars

\* ---- the two executors on the same request ---------------------------------
\* task sets whose tasks answer the same way at every call (one object, or one
\* failure), with no rule and no output model, so that validation passes
EquivOneGroup ==
    [skills |-> <<Skill("A", 1, "active", 0, {Data1}, {}),
                  Skill("B", 1, "active", 1, {}, {"timeout"})>>,
     merge_strategy |-> "merge_deep",
     validation_rules |-> <<>>,
     output_model |-> <<>>]

EquivTwoGroups ==
    [skills |-> <<Skill("A", 1, "active", 0, {Data1}, {}),
                  Skill("B", 2, "active", 0, {Data2}, {})>>,
     merge_strategy |-> "last_wins",
     validation_rules |-> <<>>,
     output_model |-> <<>>]

EquivInit ==
    /\ loaded = TRUE
    /\ schema \in {EquivOneGroup, EquivTwoGroups}
    /\ PlainRequest
    /\ Fresh

\* one request, served by either executor
EquivNext ==
    \/ GraphExecute
    \/ initialize_execution
    \/ execute_skill_group_start
    \/ \E id \in SkillIds(schema) : AttemptSucceeds(id)
    \/ \E id \in SkillIds(schema) : AttemptFails(id)
    \/ execute_skill_group_finish
    \/ merge_skill_results
    \/ save_checkpoint
    \/ route_next_action
    \/ validate_results
    \/ InvokeReturn
    \/ RecursionAbort
    \/ LegacyExecute
    \/ LegacyGroupStart
    \/ LegacyGroupFinish
    \/ LegacyFinish

EquivSpec == EquivInit /\ [][EquivNext]_vars

\* the tasks of the current group in the definition the execution started with
snapshot_skills ==
    LET by_group == get_skills_by_group(snapshot)
    IN IF state.current_group \in DOMAIN by_group
       THEN by_group[state.current_group] ELSE <<>>

\* C23: after a reload of the schema, every step of a running execution
\* still uses the definition that was current when the execution started:
\* the tasks of the group, the merge strategy and the validation rules.
C23_ExecutionKeepsItsSnapshot ==
    [][/\ execute_skill_group_start =>
             running' = {snapshot_skills[i].id : i \in 1..Len(snapshot_skills)}
       /\ merge_skill_results =>
             state'.merged_data = merge_loop(snapshot.merge_strategy, state.merged_data,
                                             state.skill_results)
       /\ validate_results =>
             state'.validation_result = <<compute_validation(snapshot, state.merged_data)>>
       /\ LegacyFinish =>
             lmerged' = merge_loop(snapshot.merge_strategy, EmptyDict, all_results)]_vars

\* C24: no superstep of an invocation is taken while another invocation of the
\* same execution is in progress.
C24_OneInvocationPerExecution ==
    [][steps' = steps + 1 =>
          (other = <<>> \/ other[1].call \notin {"execute", "resume"})]_vars

\* C33: the state is checkpointed after every group: the step after
\* execute_group is merge_results, the step after merge_results is checkpoint
\* and the step after checkpoint is the router; merge_results is entered only
\* from execute_group, checkpoint only from merge_results, and the router only
\* from checkpoint or validate.  This holds on every path, retries included.
C33_CheckpointAfterEveryGroup ==
    [][next' # next =>
          /\ next = "execute_group" => next' = "merge_results"
          /\ next = "merge_results" => next' = "checkpoint"
          /\ next = "checkpoint" => next' = "router"
          /\ next' = "merge_results" => next = "execute_group"
          /\ next' = "checkpoint" => next = "merge_results"
          /\ next' = "router" => next \in {"checkpoint", "validate"}]_vars

\* a checkpoint step is due for a group that was run again by a retry
C33_Witness ==
    /\ engine = "graph"
    /\ next = "checkpoint"
    /\ state.retry_count > 0

\* every group of the schema is in completed_groups: the router decides on the
\* validation result
validation_decides(st) ==
    /\ \A g \in DOMAIN get_skills_by_group(schema) : g \in Range(st.completed_groups)
    /\ st.validation_result # <<>>

\* C36: when the router decides on the validation result (retry, human_review
\* or complete), that result was computed from the merged_data the state holds
\* now: after a retry the new results are validated before the router decides.
C36_RouterReadsFreshValidation ==
    (/\ engine = "graph"
     /\ Invoking
     /\ next = "router"
     /\ validation_decides(state))
        => state.validation_result[1] = compute_validation(schema, state.merged_data)

\* C37: in the graph executor retry_count stays within 0..max_retries, it
\* never decreases during an execution (a resume included; only a new execute
\* starts again from 0), and it grows exactly when the router chooses 'retry',
\* by one: the router chooses 'retry' at most max_retries times per execution.
C37_RetryCountBounded ==
    /\ [](state.retry_count \in 0..max_retries)
    /\ [][/\ ~GraphExecute => state'.retry_count >= state.retry_count
          /\ GraphExecute => state'.retry_count = 0
          /\ (route_next_action /\ state'.next_action = "retry")
                => state'.retry_count = state.retry_count + 1
          /\ state'.retry_count # state.retry_count /\ ~GraphExecute
                => route_next_action /\ state'.next_action = "retry"]_vars

\* all retries are used and the execution has been resumed
C37_Witness ==
    /\ engine = "graph"
    /\ state.retry_count = max_retries
    /\ resumes > 0
    /\ call = "resume"

\* C38: under first_wins, a top-level key of merged_data keeps its value for
\* the rest of the execution: no step of the graph executor removes the key or
\* changes its value, also when a retry has appended a result that holds
\* another value for it.
C38_FirstWinsKeepsValues ==
    [][(/\ engine = "graph"
        /\ schema.merge_strategy = "first_wins"
        /\ ~GraphExecute)
          => \A k \in DOMAIN state.merged_data :
                /\ k \in DOMAIN state'.merged_data
                /\ state'.merged_data[k] = state.merged_data[k]]_vars

\* after a retry the results hold a second value for a key that was merged
\* before the retry, and the merge step has run on them
C38_Witness ==
    /\ engine = "graph"
    /\ schema.merge_strategy = "first_wins"
    /\ state.retry_count > 0
    /\ next = "checkpoint"
    /\ \E i \in 1..Len(state.skill_results) :
          LET r == state.skill_results[i]
          IN /\ r.success
             /\ "x" \in DOMAIN r.data
             /\ "x" \in DOMAIN state.merged_data
             /\ r.data["x"] # state.merged_data["x"]

\* the indices of the rules with severity sev whose check has a status of sts
rules_with(sev, sts) ==
    {i \in 1..Len(schema.validation_rules) :
        /\ schema.validation_rules[i].severity = sev
        /\ RuleCheck(i).status \in sts}

\* the entry of errors that the output-model check adds when it fails
shape_errors ==
    IF /\ schema.output_model # <<>>
       /\ Validation[1].checks[1].status = "failed"
    THEN 1 ELSE 0

\* C34: each rule contributes at most one message: errors holds one entry per
\* failed rule of severity 'error' (after the entry of a failed output-model
\* check), warnings one entry per failed rule of severity 'warning', both in
\* rule order; a passed or skipped rule adds nothing, so a result whose rules
\* all passed or were skipped has no message from a rule and the status and
\* score of the output-model check alone.
C34_OneMessagePerFailedRule ==
    Validation # <<>> =>
        LET v == Validation[1]
            n == Len(schema.validation_rules)
        IN /\ Len(v.errors) = shape_errors + Cardinality(rules_with("error", {"failed"}))
           /\ Len(v.warnings) = Cardinality(rules_with("warning", {"failed"}))
           /\ \A i \in rules_with("error", {"failed"}) :
                 \E j \in (shape_errors + 1)..Len(v.errors) :
                     v.errors[j] = schema.validation_rules[i].name
           /\ \A i \in rules_with("warning", {"failed"}) :
                 \E j \in 1..Len(v.warnings) :
                     v.warnings[j] = schema.validation_rules[i].name
           /\ (\A i \in 1..n : RuleCheck(i).status \in {"passed", "skipped"}) =>
                 /\ v.warnings = <<>>
                 /\ Len(v.errors) = shape_errors
                 /\ v.status = (IF shape_errors = 1 THEN "FAIL" ELSE "PASS")
                 /\ v.quality_score = 100 - 15 * shape_errors

\* a result with a skipped rule next to a failed error rule and a failed
\* warning rule
C34_Witness ==
    /\ Validation # <<>>
    /\ rules_with("error", {"failed"}) # {}
    /\ rules_with("warning", {"failed"}) # {}
    /\ rules_with("error", {"skipped"}) \cup rules_with("warning", {"skipped"}) # {}

\* the checks of a ValidationResult are the outcome of the optional shape check
\* followed by one outcome per rule of the schema, in rule order
one_check_per_rule(v) ==
    LET shape == IF schema.output_model # <<>> THEN 1 ELSE 0
    IN /\ Len(v.checks) = shape + Len(schema.validation_rules)
       /\ \A i \in 1..Len(schema.validation_rules) :
             v.checks[shape + i].name = schema.validation_rules[i].name

\* C35: the rules are evaluated whether or not the schema has an output model:
\* every response of an execution that reached the merge step carries a
\* ValidationResult with one check per rule, in rule order, after the
\* optional shape check, from SkillExecutor.execute and from the graph executor.
C35_RulesRunWithoutOutputModel ==
    /\ (/\ engine = "legacy"
        /\ lpc = "done"
        /\ error \notin {"not_found", "no_active_skills"})
          => (lvalidation # <<>> /\ one_check_per_rule(lvalidation[1]))
    /\ (/\ engine = "graph"
        /\ call = "none"
        /\ response \in {"completed", "partial", "pending"})
          => (state.validation_result # <<>>
              /\ one_check_per_rule(state.validation_result[1]))

\* the sum of a sequence of delays
RECURSIVE total(_)
total(seq) == IF seq = <<>> THEN 0 ELSE Head(seq) + total(Tail(seq))

\* the number of calls of the task that failed
failed_calls(id) == Len(SelectSeq(calls[id], LAMBDA c : c # "ok"))

\* C32: the delay is linear: the k-th sleep of a task lasts k units; the runner
\* sleeps once after every failed attempt that is not the last allowed one and
\* never after a success, so a task that returned a failure after all its
\* retry_count + 1 attempts slept retry_count = n times, n(n+1)/2 units in all.
C32_LinearBackoff ==
    \A id \in SkillIds(schema) :
        LET n == SkillById(schema, id).retry_count
            exhausted == /\ returned[id] # <<>>
                         /\ "success" \in DOMAIN returned[id][1]
                         /\ ~returned[id][1].success
        IN /\ slept[id] = [k \in 1..Len(slept[id]) |-> k]
           /\ IF exhausted
              THEN /\ failed_calls(id) = n + 1
                   /\ Len(slept[id]) = n
                   /\ 2 * total(slept[id]) = n * (n + 1)
              ELSE Len(slept[id]) = failed_calls(id)

\* a task with retry_count 2 failed three times and slept 1 and then 2 units
C32_Witness ==
    \E id \in SkillIds(schema) :
        /\ SkillById(schema, id).retry_count = 2
        /\ returned[id] # <<>>
        /\ "success" \in DOMAIN returned[id][1]
        /\ ~returned[id][1].success
        /\ slept[id] = <<1, 2>>

\* C39: a task that names a vendor but no model, run under a request that gives
\* no model, calls the client with the default model of the task's vendor,
\* and the vendor and model of every task are the ones the legacy executor
\* and the graph executor both choose for it.
C39_ModelOfEffectiveVendor ==
    \A id \in SkillIds(schema) :
        LET skill == SkillById(schema, id)
        IN client[id] # <<>> =>
              /\ (skill.vendor # "none" /\ skill.model = "none" /\ request_model = "none")
                    => client[id][1] =
                          [vendor |-> skill.vendor,
                           model |-> get_default_model_for_vendor(skill.vendor)]
              /\ client[id][1] = effective_client(skill, legacy_defaults.vendor,
                                                  legacy_defaults.model)
              /\ client[id][1] = effective_client(skill, graph_defaults.vendor,
                                                  graph_defaults.model)

\* the skills of by_group, group after group
RECURSIVE in_group_order(_, _)
in_group_order(by_group, groups) ==
    IF groups = <<>> THEN <<>>
    ELSE by_group[Head(groups)] \o in_group_order(by_group, Tail(groups))

\* the tasks SkillExecutor.execute runs for a schema, in the order it runs them
tasks_to_run(sch) ==
    LET by_group == group_skills(get_active_skills(sch))
    IN in_group_order(by_group, sorted(DOMAIN by_group))

\* the result of a task that answers the same way at every call
fixed_result(skill) ==
    IF skill.outs # {}
    THEN Result(skill.id, TRUE, CHOOSE d \in skill.outs : TRUE, "none", 0)
    ELSE Result(skill.id, FALSE, EmptyDict, CHOOSE e \in skill.fails : TRUE,
                skill.retry_count + 1)

\* the client calls of a task that answers the same way at every call
fixed_calls(skill) == IF skill.outs # {} THEN 1 ELSE skill.retry_count + 1

\* the response has been returned: merged data, status and number of calls
Returned ==
    IF engine = "legacy"
    THEN IF lpc = "done"
         THEN <<[merged |-> lmerged, status |-> response, calls |-> llm_calls]>>
         ELSE <<>>
    ELSE IF call \in {"none", "aborted"} /\ response # "none"
         THEN <<[merged |-> state.merged_data, status |-> response, calls |-> llm_calls]>>
         ELSE <<>>

\* C31: on a task set whose tasks answer the same way at every call and whose
\* validation passes, the response of either executor is the one of
\* SkillExecutor.execute: every active task run once, group after group, with
\* the calls its outcome needs, their results merged, and the status from them.
C31_GraphEqualsLegacy ==
    Returned # <<>> =>
        LET tasks   == tasks_to_run(schema)
            results == [i \in 1..Len(tasks) |-> fixed_result(tasks[i])]
        IN /\ Returned[1].merged = merge_loop(schema.merge_strategy, EmptyDict, results)
           /\ Returned[1].status = legacy_status(results)
           /\ Returned[1].calls = total([i \in 1..Len(tasks) |-> fixed_calls(tasks[i])])

====
